---- MODULE Spec2Model ----
(***************************************************************************)
(* A model of the benchmark harness of cruso003/conduit:                   *)
(*   src/benchmarks/week18/mcp_benchmark.py           (prog = "mcp","cmp") *)
(*   src/benchmarks/week18/ml_inference_benchmark.py  (prog = "ml")        *)
(*   src/benchmarks/week18/rag_benchmark.py           (prog = "rag")       *)
(*   src/benchmarks/week18/cost_analysis.py     (prog = "cost", "profile") *)
(*   src/benchmarks/run_benchmarks.py                 (prog = "rb")        *)
(*                                                                         *)
(* Time is a clock of integer ticks (now); every blocking call advances    *)
(* it.  Python floats are modelled as exact rationals [n, d]; a property   *)
(* or expression that raises is the value Err(<exception>).  The server    *)
(* under test is a black box: each health poll, each request, the memory   *)
(* read and the reaction to SIGTERM are nondeterministic inputs.           *)
(***************************************************************************)
EXTENDS Integers, Sequences, FiniteSets, TLC

\* ------------------------------------------------------------ bounds
\* range(50) health polls, range(100) warm-up requests and num_requests
\* measured requests are scaled down to these loop counts.
MaxPolls == 2
Warmup == 1
NumRequests == 2
\* a successful measured request is fast (1 tick) or slow (MaxDur ticks)
MaxDur == 2
\* rss of the server process, in MB, when the read succeeds: 1..MaxMem
MaxMem == 2
\* a stream delivers 0..MaxChunks non-empty lines
MaxChunks == 1
\* a direct call of instances_at_scale passes cores_per_instance in
\* 1..MaxCoresPerInstance
MaxCoresPerInstance == 3
\* run_benchmarks finds at most MaxFiles test files
MaxFiles == 2

Durations == {1, MaxDur}

\* ------------------------------------------------------------ values
RECURSIVE Gcd(_, _)
Gcd(a, b) == IF b = 0 THEN a ELSE Gcd(b, a % b)

\* a float value, as the fraction n / d in lowest terms (n >= 0, d > 0)
Val(n, d) ==
    [ok |-> TRUE, err |-> "none", n |-> n \div Gcd(n, d), d |-> d \div Gcd(n, d)]
Err(e) == [ok |-> FALSE, err |-> e, n |-> 0, d |-> 1]

\* equality of two float values (cross-multiplied), errors never equal
RatEq(a, b) == a.ok /\ b.ok /\ a.n * b.d = b.n * a.d

\* Python's a / b on floats: the operands are evaluated left to right, the
\* first one that raises wins, and a zero divisor raises ZeroDivisionError.
Div(a, b) ==
    IF ~a.ok THEN a
    ELSE IF ~b.ok THEN b
    ELSE IF b.n = 0 THEN Err("ZeroDivisionError")
    ELSE Val(a.n * b.d, a.d * b.n)

\* a * b, a + b and a - b on floats, with the common factors taken out
\* before the products are formed
Mul(a, b) ==
    IF ~a.ok THEN a
    ELSE IF ~b.ok THEN b
    ELSE Val((a.n \div Gcd(a.n, b.d)) * (b.n \div Gcd(b.n, a.d)),
             (a.d \div Gcd(b.n, a.d)) * (b.d \div Gcd(a.n, b.d)))

Add(a, b) ==
    IF ~a.ok THEN a
    ELSE IF ~b.ok THEN b
    ELSE Val(a.n * (b.d \div Gcd(a.d, b.d)) + b.n * (a.d \div Gcd(a.d, b.d)),
             (a.d \div Gcd(a.d, b.d)) * b.d)

Sub(a, b) ==
    IF ~a.ok THEN a
    ELSE IF ~b.ok THEN b
    ELSE Val(a.n * (b.d \div Gcd(a.d, b.d)) - b.n * (a.d \div Gcd(a.d, b.d)),
             (a.d \div Gcd(a.d, b.d)) * b.d)

\* a <= b on floats
Le(a, b) ==
    a.n * (b.d \div Gcd(a.d, b.d)) <= b.n * (a.d \div Gcd(a.d, b.d))

\* math.ceil of a non-negative float
Ceil(a) == (a.n + a.d - 1) \div a.d

\* x * 1000 (seconds to milliseconds)
Ms(a) == IF a.ok THEN Val(1000 * a.n, a.d) ELSE a

RECURSIVE Sum(_)
Sum(s) == IF s = <<>> THEN 0 ELSE Head(s) + Sum(Tail(s))

RECURSIVE Insert(_, _)
Insert(x, s) ==
    IF s = <<>> THEN <<x>>
    ELSE IF x <= Head(s) THEN <<x>> \o s
    ELSE <<Head(s)>> \o Insert(x, Tail(s))

RECURSIVE Sorted(_)
Sorted(s) == IF s = <<>> THEN <<>> ELSE Insert(Head(s), Sorted(Tail(s)))

\* ------------------------------------------------ statistics (stdlib)
\* statistics.mean: raises on empty data
mean(data) ==
    IF Len(data) = 0 THEN Err("StatisticsError")
    ELSE Val(Sum(data), Len(data))

\* statistics.median: raises on empty data, middle element or the mean of
\* the two middle elements of the sorted data
median(data) ==
    LET s == Sorted(data)
        n == Len(s)
    IN  IF n = 0 THEN Err("StatisticsError")
        ELSE IF n % 2 = 1 THEN Val(s[(n \div 2) + 1], 1)
        ELSE Val(s[n \div 2] + s[(n \div 2) + 1], 2)

\* statistics.quantiles(data, n=n)[i-1], method 'exclusive'.  With fewer
\* than two data points it raises; from Python 3.13 on a single data point
\* is returned as every cut point (single_ok).
quantile(data, n, i, single_ok) ==
    LET s == Sorted(data)
        ld == Len(s)
        m == ld + 1
        j0 == (i * m) \div n
        j == IF j0 < 1 THEN 1 ELSE IF j0 > ld - 1 THEN ld - 1 ELSE j0
        delta == i * m - j * n
    IN  IF ld = 0 THEN Err("StatisticsError")
        ELSE IF ld = 1 THEN (IF single_ok THEN Val(s[1], 1)
                             ELSE Err("StatisticsError"))
        ELSE Val(s[j] * (n - delta) + s[j + 1] * delta, n)

\* ------------------------------------------------------------- state
VARIABLES
    prog,          \* which entry point runs: "mcp", "ml", "rag", "cmp" (a
                   \* direct call of compare_results), "cost", "profile" (a
                   \* direct call of the FrameworkProfile methods), "rb"
    py313,         \* the interpreter is Python >= 3.13 (quantiles of 1 point)
    pc,            \* position of the program
    now,           \* time.time(), in ticks
    run,           \* mcp: 0 before the runs, 1 = Python FastAPI, 2 = Conduit
    proc,          \* per spawned server process: "none", "running", "exited"
    signals,       \* per spawned server process: the signals sent to it
    start_time,    \* benchmark_server: start_time
    polls,         \* health polls issued in this run
    pollBreak,     \* the poll that ended the wait: "none", "ok" (2xx), "bad"
    cold_start,    \* benchmark_server: cold_start (ms)
    warm,          \* warm-up requests issued in this run
    i,             \* measured iterations attempted in the current loop
    fails,         \* history: iterations of the current loop that raised
    latencies,     \* latencies of the current loop
    start,         \* clock at the start of the measured loop
    duration,      \* wall-clock span of the measured loop
    total_chunks,  \* benchmark_streaming_inference: total_chunks
    badCounted,    \* history: samples recorded from non-2xx responses
    indexing_time, \* rag: what benchmark_indexing returned
    memory_mb,     \* benchmark_server: memory_mb
    memWarned,     \* history: a warning was printed for a failed memory read
    results,       \* mcp: results; ml: all_results; rag: <<result>>
    runExit,       \* per run / workload: "pending", "returned" or the exception
    baseline,      \* compare_results: index of the baseline, 0 before
    cmpK,          \* compare_results: index of the loop over results
    row,           \* compare_results: the speedups of the last loop body
    printed,       \* lines of the comparison table printed so far
    summary,       \* the comparison's summary line, or NoSummary
    saved,         \* records written by save_results / json.dump
    msg,           \* the last message of the orchestrator
    outcome,       \* "running", "ok", "hung", or the uncaught exception
    written,       \* the JSON document save_results / export_results wrote
    plugin_built,  \* rb: libconduit.so or libconduit.dylib exists
    test_files,    \* rb: number of test_routes_*.codon files found
    file_results,  \* rb: results of main
    returned,      \* rb: what main returned, NotReturned before
    call,          \* profile: the arguments of the direct call
    ret,           \* profile: what the methods returned
    scales,        \* cost: the scales handed to compare_scales
    all_results,   \* cost: all_results, as a list of <<scale, results>>
    break_even,    \* cost: the lines calculate_break_even printed
    loopK,         \* cost, rb: index of the current loop
    report         \* rb: what the table, the analysis and the summary showed

vars == <<prog, py313, pc, now, run, proc, signals, start_time, polls, pollBreak,
          cold_start, warm, i, fails, latencies, start, duration, total_chunks,
          badCounted, indexing_time, memory_mb, memWarned, results, runExit, baseline,
          cmpK, row, printed, summary, saved, msg, outcome, written,
          plugin_built, test_files, file_results, returned, call, ret, scales,
          all_results, break_even, loopK, report>>

\* fixed after Init
fixed == <<prog, py313>>
\* written by cost_analysis and run_benchmarks only
tools == <<plugin_built, test_files, file_results, returned, call, ret, scales,
           all_results, break_even, loopK, report>>
\* written by the benchmark programs (mcp, ml, rag) only
bench == <<now, run, proc, signals, start_time, polls, pollBreak, cold_start,
           warm, i, fails, latencies, start, duration, total_chunks,
           badCounted, indexing_time, memory_mb, memWarned, results, runExit,
           baseline, cmpK, row, printed, summary, saved>>
\* written by the ml and rag programs only
mlrag == <<total_chunks, badCounted, indexing_time>>
\* written by compare_results only
cmpv == <<baseline, cmpK, row>>

\* ------------------------------------------------- BenchmarkResult
PythonName == "Python FastAPI"
ConduitName == "Conduit"

\* "Python" in r.name
IsPython(name) == name = PythonName

BenchmarkResult(name, requests, dur, lats, mem, cold) ==
    [name |-> name, requests |-> requests, duration |-> dur,
     latencies |-> lats, memory_mb |-> mem, cold_start_ms |-> cold]

rps(r) == Div(Val(r.requests, 1), Val(r.duration, 1))
p50(r) == Ms(median(r.latencies))
p95(r) == Ms(quantile(r.latencies, 20, 19, py313))
p99(r) == Ms(quantile(r.latencies, 100, 99, py313))
avg(r) == Ms(mean(r.latencies))

\* the exception of the first value of s that raises, or "none"
RECURSIVE FirstErr(_)
FirstErr(s) ==
    IF s = <<>> THEN "none"
    ELSE IF ~Head(s).ok THEN Head(s).err
    ELSE FirstErr(Tail(s))

\* MCPBenchmark._print_results: the properties are read in this order and
\* nothing catches what they raise
print_results(r) == FirstErr(<<rps(r), avg(r), p50(r), p95(r), p99(r)>>)

\* ------------------------------------------------- compare_results
NoSummary == [bound |-> FALSE, rps |-> Err("none"), memory |-> Err("none")]
NoRow ==
    [bound |-> FALSE, rps |-> Err("none"), latency |-> Err("none"),
     memory |-> Err("none"), cold |-> Err("none"), p95 |-> Err("none"),
     p99 |-> Err("none")]

Line(k, metric, ratio) == [cand |-> k, metric |-> metric, ratio |-> ratio]

\* index of the first result whose name contains "Python", 0 if none
\* (next(...) then raises StopIteration)
RECURSIVE BaselineIndex(_, _)
BaselineIndex(rs, k) ==
    IF k > Len(rs) THEN 0
    ELSE IF IsPython(rs[k].name) THEN k
    ELSE BaselineIndex(rs, k + 1)

\* speedup_memory: the ratio of the memory row and of "x less memory"
MemoryRatioSwapped(b, r) == Div(Val(r.memory_mb, 1), Val(b.memory_mb, 1))
MemoryRatio(b, r) == Div(Val(b.memory_mb, 1), Val(r.memory_mb, 1))

\* speedup_rps
ThroughputRatio(b, r) == Div(rps(r), rps(b))

\* the six ratios of the loop body for candidate r against baseline b
RowOf(b, r) ==
    [bound |-> TRUE,
     rps |-> ThroughputRatio(b, r),
     latency |-> Div(avg(b), avg(r)),
     memory |-> MemoryRatio(b, r),
     cold |-> Div(Val(b.cold_start_ms, 1), Val(r.cold_start_ms, 1)),
     p95 |-> Div(p95(b), p95(r)),
     p99 |-> Div(p99(b), p99(r))]

\* what the loop body raises: the four speedups are computed first, the P95
\* and P99 ratios inside their print lines
RowErr(v) == FirstErr(<<v.rps, v.latency, v.memory, v.cold, v.p95, v.p99>>)

\* the lines the loop body prints before it ends or raises
RowLines(v, k) ==
    IF FirstErr(<<v.rps, v.latency, v.memory, v.cold>>) # "none" THEN <<>>
    ELSE IF ~v.p95.ok
        THEN <<Line(k, "Throughput", v.rps), Line(k, "Avg Latency", v.latency)>>
    ELSE IF ~v.p99.ok
        THEN <<Line(k, "Throughput", v.rps), Line(k, "Avg Latency", v.latency),
               Line(k, "P95 Latency", v.p95)>>
    ELSE <<Line(k, "Throughput", v.rps), Line(k, "Avg Latency", v.latency),
           Line(k, "P95 Latency", v.p95), Line(k, "P99 Latency", v.p99),
           Line(k, "Memory Usage", v.memory), Line(k, "Cold Start", v.cold)>>

\* ---------------------------------------------------- save_results
SavedRecord(r) ==
    [name |-> r.name, requests |-> r.requests, duration |-> r.duration,
     rps |-> rps(r), latency_avg |-> avg(r), latency_p50 |-> p50(r),
     latency_p95 |-> p95(r), latency_p99 |-> p99(r),
     memory_mb |-> r.memory_mb, cold_start_ms |-> r.cold_start_ms]

\* the exception raised while the list of records is built, or "none"
RECURSIVE SaveErr(_)
SaveErr(rs) ==
    IF rs = <<>> THEN "none"
    ELSE LET e == FirstErr(<<rps(Head(rs)), avg(Head(rs)), p50(Head(rs)),
                             p95(Head(rs)), p99(Head(rs))>>)
         IN  IF e # "none" THEN e ELSE SaveErr(Tail(rs))

save_results(rs) ==
    IF SaveErr(rs) # "none" THEN [exc |-> SaveErr(rs), file |-> <<>>]
    ELSE [exc |-> "none", file |-> [k \in 1..Len(rs) |-> SavedRecord(rs[k])]]

\* -------------------------------------------------------------- Init
Progs == {"mcp", "ml", "rag", "cmp", "cost", "profile", "rb"}
Runs == 1..2
Entry(p) ==
    CASE p = "mcp" -> "main_py"
      [] p = "ml" -> "ml_start"
      [] p = "rag" -> "rag_index"
      [] p = "cmp" -> "compare_results"
      [] p = "cost" -> "cost_main"
      [] p = "profile" -> "memory_at_scale"
      [] p = "rb" -> "rb_main"

\* results a caller can hand to compare_results directly
SampleLatencies == {<<2>>, <<1, 2>>, <<2, 2, 1>>}
SampleResults ==
    {BenchmarkResult(nm, Len(l), Sum(l), l, m, c * 1000) :
        nm \in {PythonName, ConduitName}, l \in SampleLatencies,
        m \in 0..MaxMem, c \in 1..MaxPolls}
SampleLists ==
    {<<>>} \cup {<<a>> : a \in SampleResults}
           \cup {<<a, b>> : a \in SampleResults, b \in SampleResults}

\* loads and scales a caller can pass
Loads == {0, 1, 1000, 10000, 25000, 100000}
Calls ==
    [profile : {1, 2, 3, 4}, rps : Loads,
     cores_per_instance : 1..MaxCoresPerInstance]
NoCall == [profile |-> 1, rps |-> 0, cores_per_instance |-> 1]
MainScales == <<1000, 10000, 100000>>
ScaleLists ==
    {<<>>, <<0>>, <<100, 500>>, <<500, 100>>, <<1000, 1000>>, <<1000, 0>>,
     MainScales}

Init ==
    /\ prog \in Progs
    /\ py313 \in BOOLEAN
    /\ pc = Entry(prog)
    /\ now = 0
    /\ run = 0
    /\ proc = [k \in Runs |-> "none"]
    /\ signals = [k \in Runs |-> {}]
    /\ start_time = 0
    /\ polls = 0
    /\ pollBreak = "none"
    /\ cold_start = 0
    /\ warm = 0
    /\ i = 0
    /\ fails = 0
    /\ latencies = <<>>
    /\ start = 0
    /\ duration = 0
    /\ total_chunks = 0
    /\ badCounted = 0
    /\ indexing_time = 0
    /\ memory_mb = 0
    /\ memWarned = FALSE
    /\ results \in (IF prog = "cmp" THEN SampleLists ELSE {<<>>})
    /\ runExit = [k \in 1..4 |-> "pending"]
    /\ baseline = 0
    /\ cmpK = 0
    /\ row = NoRow
    /\ printed = <<>>
    /\ summary = NoSummary
    /\ saved = <<>>
    /\ msg = "none"
    /\ outcome = "running"
    /\ written = [exists |-> FALSE, timestamp |-> [type |-> "null"],
                  entries |-> <<>>]
    /\ plugin_built \in (IF prog = "rb" THEN BOOLEAN ELSE {FALSE})
    /\ test_files = 0
    /\ file_results = <<>>
    /\ returned = -1
    /\ call \in (IF prog = "profile" THEN Calls ELSE {NoCall})
    /\ ret = [memory |-> Err("none"), cores |-> Err("none"), instances |-> 0]
    /\ scales \in (IF prog = "cost" THEN ScaleLists ELSE {<<>>})
    /\ all_results = <<>>
    /\ break_even = <<>>
    /\ loopK = 0
    /\ report = [statuses |-> <<>>, analyzed |-> <<>>, passed |-> 0,
                 avg_load |-> Err("none")]

\* ------------------------------------------- mcp_benchmark.__main__
\* try: results.append(benchmark_python_fastapi()): the server script is
\* written and benchmark_server is entered
BenchmarkPythonFastapi ==
    /\ pc = "main_py"
    /\ run' = 1
    /\ pc' = "popen"
    /\ UNCHANGED <<fixed, tools, written, cmpv, mlrag, now, proc, signals, start_time, polls,
                   pollBreak, cold_start, warm, i, fails, latencies, start,
                   duration, memory_mb, memWarned, results, runExit, printed,
                   summary, saved, msg, outcome>>

\* try: results.append(benchmark_conduit_mcp()): codon build with
\* check=True either succeeds, and benchmark_server is entered, or raises
\* into the except Exception of __main__
BenchmarkConduitMcp ==
    /\ pc = "main_conduit"
    /\ \/ /\ run' = 2
          /\ pc' = "popen"
          /\ UNCHANGED runExit
       \/ /\ run' = 2
          /\ runExit' = [runExit EXCEPT ![2] = "CalledProcessError"]
          /\ pc' = "main_compare"
    /\ UNCHANGED <<fixed, tools, written, cmpv, mlrag, now, proc, signals, start_time, polls,
                   pollBreak, cold_start, warm, i, fails, latencies, start,
                   duration, memory_mb, memWarned, results, printed,
                   summary, saved, msg, outcome>>

\* where __main__ continues after benchmark run r returned or raised
AfterRun(r) == IF r = 1 THEN "main_conduit" ELSE "main_compare"

\* ------------------------------------ MCPBenchmark.benchmark_server
\* the locals of benchmark_server
locals == <<start_time, polls, pollBreak, cold_start, warm, i, fails,
            latencies, start, duration, memory_mb>>

\* benchmark_server is left, by return or by an exception: its locals die
LeaveBenchmarkServer ==
    /\ start_time' = 0
    /\ polls' = 0
    /\ pollBreak' = "none"
    /\ cold_start' = 0
    /\ warm' = 0
    /\ i' = 0
    /\ fails' = 0
    /\ latencies' = <<>>
    /\ start' = 0
    /\ duration' = 0
    /\ memory_mb' = 0

\* start_time = time.time(); process = subprocess.Popen(start_cmd, ...)
Popen ==
    /\ pc = "popen"
    /\ start_time' = now
    /\ proc' = [proc EXCEPT ![run] = "running"]
    /\ pc' = "poll"
    /\ UNCHANGED <<fixed, tools, written, cmpv, mlrag, now, run, signals, polls, pollBreak,
                   cold_start, warm, i, fails, latencies, start, duration,
                   memory_mb, memWarned, results, runExit, printed, summary,
                   saved, msg, outcome>>

\* the code after the polling loop: cold_start = (time.time() - start_time)
\* * 1000, then the warm-up loop is entered whatever the polls answered
AfterPolls(t) ==
    /\ cold_start' = (t - start_time) * 1000
    /\ pc' = "warmup"

\* a polling loop that keeps polling after an answer until the budget is
\* used up
HealthPollToExhaustion ==
    /\ pc = "poll"
    /\ polls < MaxPolls
    /\ polls' = polls + 1
    /\ now' = now + 1
    /\ \/ pollBreak' \in {"ok", "bad"}
       \/ UNCHANGED pollBreak
    /\ IF polls' = MaxPolls
          THEN AfterPolls(now')
          ELSE UNCHANGED <<cold_start, pc>>
    /\ UNCHANGED <<fixed, tools, written, cmpv, mlrag, run, proc, signals, start_time, warm, i,
                   fails, latencies, start, duration, memory_mb, memWarned,
                   results, runExit, printed, summary, saved, msg, outcome>>

\* one pass of for _ in range(50): requests.get(health, timeout=0.1) either
\* returns a response (any HTTP status: break) or raises (sleep, next pass)
HealthPoll ==
    /\ pc = "poll"
    /\ polls < MaxPolls
    /\ polls' = polls + 1
    /\ now' = now + 1
    /\ \/ /\ pollBreak' \in {"ok", "bad"}
          /\ AfterPolls(now')
       \/ /\ UNCHANGED pollBreak
          /\ IF polls' = MaxPolls
                THEN AfterPolls(now')
                ELSE UNCHANGED <<cold_start, pc>>
    /\ UNCHANGED <<fixed, tools, written, cmpv, mlrag, run, proc, signals, start_time, warm, i,
                   fails, latencies, start, duration, memory_mb, memWarned,
                   results, runExit, printed, summary, saved, msg, outcome>>

\* the code between the warm-up loop and the measured loop
AfterWarmup(t) ==
    /\ latencies' = <<>>
    /\ start' = t
    /\ pc' = "measure"

\* one pass of the warm-up loop: the request returns or raises, and the
\* bare except swallows what it raises
WarmupRequest ==
    /\ pc = "warmup"
    /\ warm < Warmup
    /\ warm' = warm + 1
    /\ now' = now + 1
    /\ IF warm' = Warmup
          THEN AfterWarmup(now')
          ELSE UNCHANGED <<latencies, start, pc>>
    /\ UNCHANGED <<fixed, tools, written, cmpv, mlrag, run, proc, signals, start_time, polls,
                   pollBreak, cold_start, i, fails, duration, memory_mb,
                   memWarned, results, runExit, printed, summary, saved,
                   msg, outcome>>

\* the body of a measured loop: the request succeeds after d ticks and its
\* latency is appended, or it raises (timeout, connection error, HTTP error
\* status) and except Exception prints the index
IterationStopOnFailure(ok, d) ==
    /\ latencies' = IF ok THEN Append(latencies, d) ELSE latencies
    /\ fails' = IF ok THEN fails ELSE fails + 1
    /\ now' = now + d
    /\ i' = IF ok THEN i + 1 ELSE NumRequests
Iteration(ok, d) ==
    /\ latencies' = IF ok THEN Append(latencies, d) ELSE latencies
    /\ fails' = IF ok THEN fails ELSE fails + 1
    /\ now' = now + d
    /\ i' = i + 1

\* one pass of for i in range(num_requests) of benchmark_server; after the
\* last pass duration = time.time() - start
MeasuredRequest ==
    /\ pc = "measure"
    /\ i < NumRequests
    /\ \/ \E d \in Durations : Iteration(TRUE, d)
       \/ Iteration(FALSE, 1)
    /\ IF i' >= NumRequests
          THEN duration' = now' - start /\ pc' = "memory"
          ELSE UNCHANGED <<duration, pc>>
    /\ UNCHANGED <<fixed, tools, written, cmpv, mlrag, run, proc, signals, start_time, polls,
                   pollBreak, cold_start, warm, start, memory_mb, memWarned,
                   results, runExit, printed, summary, saved, msg, outcome>>

\* try: memory_mb = psutil.Process(pid).memory_info().rss / 1024 / 1024
\* except: memory_mb = 0   (nothing is printed)
MeasureMemory ==
    /\ pc = "memory"
    /\ memory_mb' \in 0..MaxMem
    /\ pc' = "cleanup"
    /\ UNCHANGED <<fixed, tools, written, cmpv, mlrag, now, run, proc, signals, start_time, polls,
                   pollBreak, cold_start, warm, i, fails, latencies, start,
                   duration, memWarned, results, runExit, printed, summary,
                   saved, msg, outcome>>

\* the signals process.terminate() sends
Terminate == {"TERM"}

\* process.terminate(); process.wait(timeout=5): the process exits in time,
\* or it ignores SIGTERM and wait raises TimeoutExpired, which leaves
\* benchmark_server for the except Exception of __main__
Cleanup ==
    /\ pc = "cleanup"
    /\ signals' = [signals EXCEPT ![run] = @ \cup Terminate]
    /\ now' = now + 1
    /\ \/ /\ proc' = [proc EXCEPT ![run] = "exited"]
          /\ pc' = "print"
          /\ UNCHANGED <<runExit, locals>>
       \/ /\ "KILL" \notin signals'[run]
          /\ UNCHANGED proc
          /\ runExit' = [runExit EXCEPT ![run] = "TimeoutExpired"]
          /\ LeaveBenchmarkServer
          /\ pc' = AfterRun(run)
    /\ UNCHANGED <<fixed, tools, written, cmpv, mlrag, run, memWarned, results, printed,
                   summary, saved, msg, outcome>>

\* result = BenchmarkResult(...); self._print_results(result); return
\* result.  What _print_results raises reaches the except Exception of
\* __main__ and the result is not appended.
ReturnResult ==
    /\ pc = "print"
    /\ LET result == BenchmarkResult(IF run = 1 THEN PythonName ELSE ConduitName,
                                     Len(latencies), duration, latencies,
                                     memory_mb, cold_start)
           e == print_results(result)
       IN  IF e = "none"
              THEN /\ results' = Append(results, result)
                   /\ runExit' = [runExit EXCEPT ![run] = "returned"]
              ELSE /\ UNCHANGED results
                   /\ runExit' = [runExit EXCEPT ![run] = e]
    /\ LeaveBenchmarkServer
    /\ pc' = AfterRun(run)
    /\ UNCHANGED <<fixed, tools, written, cmpv, mlrag, now, run, proc, signals, memWarned,
                   printed, summary, saved, msg, outcome>>

\* if len(results) >= 2: compare_results(results) is entered
\* else: print("Not enough results to compare")
MainCompare ==
    /\ pc = "main_compare"
    /\ IF Len(results) >= 2
          THEN /\ pc' = "compare_results"
               /\ UNCHANGED <<msg, outcome>>
          ELSE /\ msg' = "Not enough results to compare"
               /\ outcome' = "ok"
               /\ pc' = "done"
    /\ UNCHANGED <<fixed, tools, written, cmpv, mlrag, now, run, proc, signals, start_time,
                   polls, pollBreak, cold_start, warm, i, fails, latencies,
                   start, duration, memory_mb, memWarned, results, runExit,
                   printed, summary, saved>>

\* baseline = next(r for r in results if "Python" in r.name): StopIteration
\* leaves the function when no result is named Python.  Entered from
\* __main__ or, for prog = "cmp", called directly on a list of results.
CompareResults ==
    /\ pc = "compare_results"
    /\ baseline' = BaselineIndex(results, 1)
    /\ cmpK' = 1
    /\ IF baseline' = 0
          THEN outcome' = "StopIteration" /\ pc' = "done"
          ELSE UNCHANGED outcome /\ pc' = "compare_loop"
    /\ UNCHANGED <<fixed, tools, written, mlrag, row, now, run, proc, signals, start_time,
                   polls, pollBreak, cold_start, warm, i, fails, latencies,
                   start, duration, memory_mb, memWarned, results, runExit,
                   printed, summary, saved, msg>>

\* one pass of for result in results: the baseline is skipped, any other
\* result has its speedups computed and its lines printed; what that
\* raises leaves the function
CompareLoop ==
    /\ pc = "compare_loop"
    /\ cmpK <= Len(results)
    /\ cmpK' = cmpK + 1
    /\ IF results[cmpK] = results[baseline]
          THEN UNCHANGED <<row, printed, outcome, pc>>
          ELSE /\ row' = RowOf(results[baseline], results[cmpK])
               /\ printed' = printed \o RowLines(row', cmpK)
               /\ IF RowErr(row') # "none"
                     THEN outcome' = RowErr(row') /\ pc' = "done"
                     ELSE UNCHANGED <<outcome, pc>>
    /\ UNCHANGED <<fixed, tools, written, mlrag, baseline, now, run, proc, signals,
                   start_time, polls, pollBreak, cold_start, warm, i, fails,
                   latencies, start, duration, memory_mb, memWarned, results,
                   runExit, summary, saved, msg>>

\* after the loop: the summary line reads speedup_rps and speedup_memory,
\* which are unbound when the loop body never ran for a candidate
\* (UnboundLocalError).  __main__ goes on to save_results.
CompareSummary ==
    /\ pc = "compare_loop"
    /\ cmpK > Len(results)
    /\ IF ~row.bound
          THEN /\ outcome' = "UnboundLocalError"
               /\ pc' = "done"
               /\ UNCHANGED <<summary, msg>>
          ELSE /\ summary' = [bound |-> TRUE, rps |-> row.rps,
                              memory |-> row.memory]
               /\ msg' = "compared"
               /\ IF prog = "mcp"
                     THEN pc' = "save_results" /\ UNCHANGED outcome
                     ELSE pc' = "done" /\ outcome' = "ok"
    /\ UNCHANGED <<fixed, tools, written, cmpv, mlrag, now, run, proc, signals, start_time,
                   polls, pollBreak, cold_start, warm, i, fails, latencies,
                   start, duration, memory_mb, memWarned, results, runExit,
                   printed, saved>>

\* -------------------------------------------------------------- json
\* json.dump writes a number as the decimal literal of float.__repr__ /
\* int.__repr__, which denotes exactly that number, and a str as a string
JsonNumber2dp(v) ==
    [type |-> "number", num |-> (100 * v.n + v.d \div 2) \div v.d, den |-> 100]
JsonNumber(v) == [type |-> "number", num |-> v.n, den |-> v.d]
JsonString(str) == [type |-> "string", chars |-> str]
NoToken == [type |-> "null"]

\* json.load of one literal
JsonValue(t) == IF t.type = "number" THEN Val(t.num, t.den) ELSE t.chars

\* json.load of one object: every member is read back
JsonObject(o) == [f \in DOMAIN o |-> JsonValue(o[f])]

\* a document: the members of the top-level object in file order; entries
\* are the members whose value is a list of objects
NoDocument == [exists |-> FALSE, timestamp |-> NoToken, entries |-> <<>>]
Document(ts, entries) == [exists |-> TRUE, timestamp |-> ts, entries |-> entries]
Member(key, objects) == [key |-> key, value |-> objects]

\* the object save_results writes for one record of its list
SavedObject(rec) ==
    [name |-> JsonString(rec.name),
     requests |-> JsonNumber(Val(rec.requests, 1)),
     duration |-> JsonNumber(Val(rec.duration, 1)),
     rps |-> JsonNumber(rec.rps),
     latency_avg |-> JsonNumber(rec.latency_avg),
     latency_p50 |-> JsonNumber(rec.latency_p50),
     latency_p95 |-> JsonNumber(rec.latency_p95),
     latency_p99 |-> JsonNumber(rec.latency_p99),
     memory_mb |-> JsonNumber(Val(rec.memory_mb, 1)),
     cold_start_ms |-> JsonNumber(Val(rec.cold_start_ms, 1))]

\* with open(filename, "w") as f: json.dump(data, f, indent=2), for the
\* data of save_results at time t
SavedDocument(file, t) ==
    Document(JsonNumber(Val(t, 1)),
             <<Member("results", [k \in 1..Len(file) |-> SavedObject(file[k])])>>)

\* save_results(results) as called by __main__: the data is built first, so
\* a property that raises leaves no file
SaveResults ==
    /\ pc = "save_results"
    /\ saved' = save_results(results).file
    /\ written' = IF save_results(results).exc = "none"
                     THEN SavedDocument(saved', now) ELSE written
    /\ outcome' = IF save_results(results).exc = "none" THEN "ok"
                  ELSE save_results(results).exc
    /\ pc' = "done"
    /\ UNCHANGED <<fixed, tools, cmpv, mlrag, now, run, proc, signals, start_time,
                   polls, pollBreak, cold_start, warm, i, fails, latencies,
                   start, duration, memory_mb, memWarned, results, runExit,
                   printed, summary, msg>>

\* ------------------------- ml_inference_benchmark: MLInferenceBenchmark
TestTypes == <<"sklearn", "onnx", "streaming", "pipeline">>
\* throughput = len(latencies) * 32 / duration  (batch of 32)
BatchSize == 32

MLBenchmarkResult(tt, lats, dur, thr) ==
    [name |-> PythonName, framework |-> "Python", test_type |-> tt,
     iterations |-> Len(lats), duration |-> dur, latencies |-> lats,
     throughput |-> thr]

avg_latency(r) == Ms(mean(r.latencies))
p95_latency(r) == Ms(quantile(r.latencies, 20, 19, py313))

\* the numerator of throughput per test type
Units(tt, lats, chunks) ==
    CASE tt = "onnx" -> Len(lats) * BatchSize
      [] tt = "streaming" -> chunks
      [] OTHER -> Len(lats)

\* what the prints after the loop raise: streaming prints no P95
MLPrintErr(r) ==
    IF r.test_type = "streaming"
        THEN FirstErr(<<r.throughput, avg_latency(r)>>)
        ELSE FirstErr(<<r.throughput, avg_latency(r), p95_latency(r)>>)

\* the code before the loop of a benchmark_* method
EnterWorkload(t) ==
    /\ latencies' = <<>>
    /\ total_chunks' = 0
    /\ start' = t
    /\ i' = 0
    /\ fails' = 0

\* run_full_ml_benchmark up to the try: the server is spawned and the
\* driver sleeps 2 s; no health check is made.  Then the first workload.
MLStart ==
    /\ pc = "ml_start"
    /\ proc' = [proc EXCEPT ![1] = "running"]
    /\ now' = now + 2
    /\ run' = 1
    /\ EnterWorkload(now')
    /\ pc' = "ml_loop"
    /\ UNCHANGED <<fixed, tools, written, cmpv, badCounted, indexing_time, signals, start_time,
                   polls, pollBreak, cold_start, warm, duration, memory_mb,
                   memWarned, results, runExit, printed, summary, saved,
                   msg, outcome>>

\* one pass of a workload loop.  sklearn, onnx, pipeline: post, then
\* raise_for_status.  streaming: get(stream=True) and count the non-empty
\* lines of whatever response came back; only an exception is a failure.
MLIteration ==
    /\ pc = "ml_loop"
    /\ i < NumRequests
    /\ \/ /\ Iteration(TRUE, 1)
          /\ \E c \in 0..MaxChunks :
                total_chunks' = IF TestTypes[run] = "streaming"
                                   THEN total_chunks + c ELSE total_chunks
          /\ UNCHANGED badCounted
       \/ /\ TestTypes[run] = "streaming"
          /\ Iteration(TRUE, 1)
          /\ \E c \in 0..MaxChunks : total_chunks' = total_chunks + c
          /\ badCounted' = badCounted + 1
       \/ /\ Iteration(FALSE, 1)
          /\ UNCHANGED <<total_chunks, badCounted>>
    /\ IF i' >= NumRequests
          THEN duration' = now' - start /\ pc' = "ml_result"
          ELSE UNCHANGED <<duration, pc>>
    /\ UNCHANGED <<fixed, tools, written, cmpv, indexing_time, run, proc, signals, start_time,
                   polls, pollBreak, cold_start, warm, start, memory_mb,
                   memWarned, results, runExit, printed, summary, saved,
                   msg, outcome>>

\* the code after the loop of a benchmark_* method: throughput, the result,
\* the prints.  A raise leaves the try of run_full_ml_benchmark through its
\* finally; a return appends the result and enters the next workload.
MLResult ==
    /\ pc = "ml_result"
    /\ LET tt == TestTypes[run]
           thr == Div(Val(Units(tt, latencies, total_chunks), 1),
                      Val(duration, 1))
           r == MLBenchmarkResult(tt, latencies, duration, thr)
           e == MLPrintErr(r)
       IN  IF e # "none"
              THEN /\ runExit' = [runExit EXCEPT ![run] = e]
                   /\ pc' = "ml_finally"
                   /\ UNCHANGED <<results, run, latencies, total_chunks,
                                  start, i, fails>>
              ELSE /\ runExit' = [runExit EXCEPT ![run] = "returned"]
                   /\ results' = Append(results, r)
                   /\ IF run < Len(TestTypes)
                         THEN /\ run' = run + 1
                              /\ EnterWorkload(now)
                              /\ pc' = "ml_loop"
                         ELSE /\ pc' = "ml_finally"
                              /\ UNCHANGED <<run, latencies, total_chunks,
                                             start, i, fails>>
    /\ UNCHANGED <<fixed, tools, written, cmpv, badCounted, indexing_time, now, proc, signals,
                   start_time, polls, pollBreak, cold_start, warm, duration,
                   memory_mb, memWarned, printed, summary, saved, msg,
                   outcome>>

\* finally: process.terminate(); process.wait()  -- no timeout.  Either the
\* process exits and the pending exception, if any, leaves the function, or
\* the process ignores SIGTERM and wait() never returns.
MLFinally ==
    /\ pc = "ml_finally"
    /\ signals' = [signals EXCEPT ![1] = @ \cup Terminate]
    /\ now' = now + 1
    /\ \/ /\ proc' = [proc EXCEPT ![1] = "exited"]
          /\ IF runExit[run] = "returned"
                THEN pc' = "ml_summary" /\ UNCHANGED outcome
                ELSE pc' = "done" /\ outcome' = runExit[run]
       \/ /\ "KILL" \notin signals'[1]
          /\ UNCHANGED proc
          /\ pc' = "ml_wait"
          /\ outcome' = "hung"
    /\ UNCHANGED <<fixed, tools, written, cmpv, mlrag, run, start_time, polls, pollBreak,
                   cold_start, warm, i, fails, latencies, start, duration,
                   memory_mb, memWarned, results, runExit, printed, summary,
                   saved, msg>>

\* the exception raised while the list handed to json.dump is built
RECURSIVE MLDumpErr(_)
MLDumpErr(rs) ==
    IF rs = <<>> THEN "none"
    ELSE LET e == FirstErr(<<avg_latency(Head(rs)), p95_latency(Head(rs))>>)
         IN  IF e # "none" THEN e ELSE MLDumpErr(Tail(rs))

MLSavedRecord(r) ==
    [name |-> r.name, framework |-> r.framework, test_type |-> r.test_type,
     throughput |-> r.throughput, avg_latency |-> avg_latency(r),
     p95_latency |-> p95_latency(r)]

\* the comparison summary (only one framework is benchmarked, so no test
\* type has two results and nothing is compared) and the json.dump
MLSummary ==
    /\ pc = "ml_summary"
    /\ msg' = "COMPARISON SUMMARY"
    /\ IF MLDumpErr(results) # "none"
          THEN outcome' = MLDumpErr(results) /\ UNCHANGED saved
          ELSE /\ outcome' = "ok"
               /\ saved' = [k \in 1..Len(results) |-> MLSavedRecord(results[k])]
    /\ pc' = "done"
    /\ UNCHANGED <<fixed, tools, written, cmpv, mlrag, now, run, proc, signals, start_time, polls,
                   pollBreak, cold_start, warm, i, fails, latencies, start,
                   duration, memory_mb, memWarned, results, runExit, printed,
                   summary>>

\* ------------------------------------------ rag_benchmark: RAGBenchmark
\* len(self.test_documents)
NumDocuments == 1000

RAGBenchmarkResult(idx, lats) ==
    [framework |-> PythonName, num_documents |-> NumDocuments,
     num_queries |-> Len(lats), indexing_time |-> idx,
     query_latencies |-> lats, memory_mb |-> 0]

docs_per_sec(r) == Div(Val(r.num_documents, 1), Val(r.indexing_time, 1))
queries_per_sec(r) ==
    Div(Val(r.num_queries, 1), Val(Sum(r.query_latencies), 1))
avg_query_latency(r) == Ms(mean(r.query_latencies))
p95_query_latency(r) == Ms(quantile(r.query_latencies, 20, 19, py313))

\* benchmark_indexing: the post returns a 2xx response after d ticks and the
\* elapsed time is returned, or it raises and 0 is returned.  Then
\* benchmark_queries starts.
BenchmarkIndexing ==
    /\ pc = "rag_index"
    /\ \E d \in Durations :
          /\ now' = now + d
          /\ indexing_time' \in {0, d}
    /\ run' = 1
    /\ latencies' = <<>>
    /\ start' = now'
    /\ i' = 0
    /\ fails' = 0
    /\ pc' = "rag_loop"
    /\ UNCHANGED <<fixed, tools, written, cmpv, total_chunks, badCounted, proc, signals,
                   start_time, polls, pollBreak, cold_start, warm, duration,
                   memory_mb, memWarned, results, runExit, printed, summary,
                   saved, msg, outcome>>

\* one pass of for i in range(num_queries) of benchmark_queries
BenchmarkQuery ==
    /\ pc = "rag_loop"
    /\ i < NumRequests
    /\ \/ \E d \in Durations : Iteration(TRUE, d)
       \/ Iteration(FALSE, 1)
    /\ IF i' >= NumRequests
          THEN duration' = now' - start /\ pc' = "rag_result"
          ELSE UNCHANGED <<duration, pc>>
    /\ UNCHANGED <<fixed, tools, written, cmpv, mlrag, run, proc, signals, start_time, polls,
                   pollBreak, cold_start, warm, start, memory_mb, memWarned,
                   results, runExit, printed, summary, saved, msg, outcome>>

\* run_full_benchmark after the two phases: the result is built and its
\* four derived rates are printed; nothing catches what they raise
RagResult ==
    /\ pc = "rag_result"
    /\ LET r == RAGBenchmarkResult(indexing_time, latencies)
           e == FirstErr(<<docs_per_sec(r), queries_per_sec(r),
                           avg_query_latency(r), p95_query_latency(r)>>)
       IN  /\ runExit' = [runExit EXCEPT ![1] = IF e = "none" THEN "returned" ELSE e]
           /\ outcome' = IF e = "none" THEN "ok" ELSE e
           /\ results' = IF e = "none" THEN <<r>> ELSE results
    /\ pc' = "done"
    /\ UNCHANGED <<fixed, tools, written, cmpv, mlrag, now, run, proc, signals, start_time, polls,
                   pollBreak, cold_start, warm, i, fails, latencies, start,
                   duration, memory_mb, memWarned, printed, summary, saved,
                   msg>>

\* ------------------------------------- cost_analysis: FrameworkProfile
FrameworkProfile(name, base, per_1k, cores_per_10k) ==
    [name |-> name, memory_mb_base |-> base, memory_mb_per_1k_rps |-> per_1k,
     cpu_cores_per_10k_rps |-> cores_per_10k]

\* PROFILES, in the order of the dict
PROFILES ==
    <<FrameworkProfile(PythonName, Val(150, 1), Val(50, 1), Val(8, 1)),
      FrameworkProfile("Python Flask", Val(120, 1), Val(60, 1), Val(10, 1)),
      FrameworkProfile("Node.js Express", Val(80, 1), Val(30, 1), Val(6, 1)),
      FrameworkProfile(ConduitName, Val(8, 1), Val(2, 1), Val(8, 10))>>

memory_at_scale_per_10k(p, load) ==
    Add(p.memory_mb_base, Mul(Val(load, 10000), p.memory_mb_per_1k_rps))
memory_at_scale(p, load) ==
    Add(p.memory_mb_base, Mul(Val(load, 1000), p.memory_mb_per_1k_rps))

cores_at_scale_wrapped(p, load) ==
    Mul(Val(load % 10000, 10000), p.cpu_cores_per_10k_rps)
cores_at_scale(p, load) == Mul(Val(load, 10000), p.cpu_cores_per_10k_rps)

instances_at_scale_unfloored(p, load, cores_per_instance) ==
    Ceil(Div(cores_at_scale(p, load), Val(cores_per_instance, 1)))
instances_at_scale(p, load, cores_per_instance) ==
    IF Ceil(Div(cores_at_scale(p, load), Val(cores_per_instance, 1))) > 1
        THEN Ceil(Div(cores_at_scale(p, load), Val(cores_per_instance, 1)))
        ELSE 1

\* ---------------------------- cost_analysis: InfrastructureCostAnalyzer
COST_PER_VCPU_HOUR == Val(416, 10000)
COST_PER_GB_HOUR == Val(52, 10000)
\* hours_per_month = 24 * 30
hours_per_month == Val(24 * 30, 1)

CostAnalysis(framework, load, memory, cores, instances, monthly, per_million) ==
    [framework |-> framework, rps |-> load, memory_mb |-> memory,
     cpu_cores |-> cores, instances |-> instances, monthly_cost |-> monthly,
     cost_per_million_requests |-> per_million]

\* monthly_cost = cpu_cost + memory_cost
monthly_cost_of_instances(cores, memory, instances) ==
    Add(Mul(Mul(Val(2 * instances, 1), COST_PER_VCPU_HOUR), hours_per_month),
        Mul(Mul(Div(memory, Val(1024, 1)), COST_PER_GB_HOUR), hours_per_month))
monthly_cost(cores, memory, instances) ==
    Add(Mul(Mul(cores, COST_PER_VCPU_HOUR), hours_per_month),
        Mul(Mul(Div(memory, Val(1024, 1)), COST_PER_GB_HOUR), hours_per_month))

\* requests_per_month = rps * 60 * 60 * 24 * 30; cost_per_million =
\* (monthly_cost / requests_per_month) * 1_000_000.  The quotient is formed
\* as (monthly_cost / rps) * (1_000_000 / (60 * 60 * 24 * 30)), the same
\* number with integers that stay small; load = 0 raises ZeroDivisionError.
cost_per_million_per_day(monthly, load) ==
    Mul(Div(monthly, Val(load, 1)), Val(1000000, 60 * 60 * 24))
cost_per_million(monthly, load) ==
    Mul(Div(monthly, Val(load, 1)), Val(1000000, 60 * 60 * 24 * 30))

\* the CostAnalysis analyze_scale builds for the k-th profile
AnalysisOf(k, load) ==
    CostAnalysis(PROFILES[k].name, load,
                 memory_at_scale(PROFILES[k], load),
                 cores_at_scale(PROFILES[k], load),
                 instances_at_scale(PROFILES[k], load, 2),
                 monthly_cost(cores_at_scale(PROFILES[k], load),
                              memory_at_scale(PROFILES[k], load),
                              instances_at_scale(PROFILES[k], load, 2)),
                 cost_per_million(
                     monthly_cost(cores_at_scale(PROFILES[k], load),
                                  memory_at_scale(PROFILES[k], load),
                                  instances_at_scale(PROFILES[k], load, 2)),
                     load))

\* analyze_scale(load): one CostAnalysis per profile, or the exception the
\* first loop pass raises
analyze_scale(load) ==
    IF ~AnalysisOf(1, load).cost_per_million_requests.ok
        THEN [exc |-> AnalysisOf(1, load).cost_per_million_requests.err,
              results |-> <<>>]
        ELSE [exc |-> "none",
              results |-> [k \in 1..Len(PROFILES) |-> AnalysisOf(k, load)]]

\* all_results[rps] = results: a key already present keeps its position
RECURSIVE Put(_, _, _)
Put(d, key, value) ==
    IF d = <<>> THEN <<[key |-> key, value |-> value]>>
    ELSE IF Head(d).key = key THEN <<[key |-> key, value |-> value]>> \o Tail(d)
    ELSE <<Head(d)>> \o Put(Tail(d), key, value)

\* next(r for r in results if r.framework == name): index, 0 if none
RECURSIVE FrameworkIndex(_, _, _)
FrameworkIndex(rs, name, k) ==
    IF k > Len(rs) THEN 0
    ELSE IF rs[k].framework = name THEN k
    ELSE FrameworkIndex(rs, name, k + 1)

\* direct calls of the FrameworkProfile methods, in this order
NoReturn == [memory |-> Err("none"), cores |-> Err("none"), instances |-> 0]

MemoryAtScale ==
    /\ pc = "memory_at_scale"
    /\ ret' = [ret EXCEPT !.memory = memory_at_scale(PROFILES[call.profile],
                                                     call.rps)]
    /\ pc' = "cores_at_scale"
    /\ UNCHANGED <<fixed, bench, msg, outcome, written, plugin_built,
                   test_files, file_results, returned, call, scales,
                   all_results, break_even, loopK, report>>

CoresAtScale ==
    /\ pc = "cores_at_scale"
    /\ ret' = [ret EXCEPT !.cores = cores_at_scale(PROFILES[call.profile],
                                                   call.rps)]
    /\ pc' = "instances_at_scale"
    /\ UNCHANGED <<fixed, bench, msg, outcome, written, plugin_built,
                   test_files, file_results, returned, call, scales,
                   all_results, break_even, loopK, report>>

InstancesAtScale ==
    /\ pc = "instances_at_scale"
    /\ ret' = [ret EXCEPT !.instances =
                  instances_at_scale(PROFILES[call.profile], call.rps,
                                     call.cores_per_instance)]
    /\ outcome' = "ok"
    /\ pc' = "done"
    /\ UNCHANGED <<fixed, bench, msg, written, plugin_built, test_files,
                   file_results, returned, call, scales, all_results,
                   break_even, loopK, report>>

\* main: analyzer = InfrastructureCostAnalyzer(); compare_scales(scales) is
\* entered (main passes [1000, 10000, 100000])
CostMain ==
    /\ pc = "cost_main"
    /\ loopK' = 1
    /\ pc' = IF scales = <<>> THEN "calculate_break_even" ELSE "compare_scales"
    /\ UNCHANGED <<fixed, bench, msg, outcome, written, plugin_built,
                   test_files, file_results, returned, call, ret, scales,
                   all_results, break_even, report>>

\* one pass of for rps in scales of compare_scales: all_results[rps] =
\* analyze_scale(rps) and the table rows are printed (the savings column
\* divides by the baseline's monthly cost, which is positive whenever
\* analyze_scale returned).  What analyze_scale raises leaves main.
CompareScales ==
    /\ pc = "compare_scales"
    /\ loopK <= Len(scales)
    /\ IF analyze_scale(scales[loopK]).exc # "none"
          THEN /\ outcome' = analyze_scale(scales[loopK]).exc
               /\ pc' = "done"
               /\ UNCHANGED <<all_results, loopK>>
          ELSE /\ all_results' = Put(all_results, scales[loopK],
                                     analyze_scale(scales[loopK]).results)
               /\ loopK' = IF loopK = Len(scales) THEN 1 ELSE loopK + 1
               /\ pc' = IF loopK = Len(scales) THEN "calculate_break_even"
                        ELSE "compare_scales"
               /\ UNCHANGED outcome
    /\ UNCHANGED <<fixed, bench, msg, written, plugin_built, test_files,
                   file_results, returned, call, ret, scales, break_even,
                   report>>

\* scales of calculate_break_even
BreakEvenScales == <<100, 500, 1000, 5000, 10000, 50000, 100000>>

\* savings = python_cost - conduit_cost
savings_candidate_first(python_cost, conduit_cost) ==
    Sub(conduit_cost, python_cost)
savings_of(python_cost, conduit_cost) == Sub(python_cost, conduit_cost)

\* the line calculate_break_even prints for one scale
BreakEvenLine(load) ==
    [rps |-> load,
     python_cost |->
        analyze_scale(load).results[
            FrameworkIndex(analyze_scale(load).results, PythonName, 1)].monthly_cost,
     conduit_cost |->
        analyze_scale(load).results[
            FrameworkIndex(analyze_scale(load).results, ConduitName, 1)].monthly_cost,
     savings |->
        savings_of(
            analyze_scale(load).results[
                FrameworkIndex(analyze_scale(load).results, PythonName, 1)].monthly_cost,
            analyze_scale(load).results[
                FrameworkIndex(analyze_scale(load).results, ConduitName, 1)].monthly_cost),
     annual_savings |->
        Mul(savings_of(
                analyze_scale(load).results[
                    FrameworkIndex(analyze_scale(load).results, PythonName, 1)].monthly_cost,
                analyze_scale(load).results[
                    FrameworkIndex(analyze_scale(load).results, ConduitName, 1)].monthly_cost),
            Val(12, 1))]

\* one pass of for rps in scales of calculate_break_even
CalculateBreakEven ==
    /\ pc = "calculate_break_even"
    /\ loopK <= Len(BreakEvenScales)
    /\ break_even' = Append(break_even, BreakEvenLine(BreakEvenScales[loopK]))
    /\ loopK' = IF loopK = Len(BreakEvenScales) THEN 1 ELSE loopK + 1
    /\ pc' = IF loopK = Len(BreakEvenScales) THEN "export_results"
             ELSE "calculate_break_even"
    /\ UNCHANGED <<fixed, bench, msg, outcome, written, plugin_built,
                   test_files, file_results, returned, call, ret, scales,
                   all_results, report>>

\* the object export_results writes for one CostAnalysis
ExportedObject(r) ==
    [framework |-> JsonString(r.framework),
     rps |-> JsonNumber(Val(r.rps, 1)),
     memory_mb |-> JsonNumber(r.memory_mb),
     cpu_cores |-> JsonNumber(r.cpu_cores),
     instances |-> JsonNumber(Val(r.instances, 1)),
     monthly_cost |-> JsonNumber(r.monthly_cost),
     cost_per_million_requests |-> JsonNumber(r.cost_per_million_requests)]

\* data = {str(scale): [...] for scale, result_list in results.items()}
ExportedDocument(rs) ==
    [exists |-> TRUE, timestamp |-> NoToken,
     entries |-> [k \in 1..Len(rs) |->
                    Member(rs[k].key,
                           [j \in 1..Len(rs[k].value) |->
                               ExportedObject(rs[k].value[j])])]]

\* analyzer.export_results(results)
ExportResults ==
    /\ pc = "export_results"
    /\ written' = ExportedDocument(all_results)
    /\ pc' = "cost_summary"
    /\ UNCHANGED <<fixed, bench, tools, msg, outcome>>

\* the summary of main: analyze_scale(100000) and the ratios of the Python
\* FastAPI and Conduit records, whose divisors are positive
CostSummary ==
    /\ pc = "cost_summary"
    /\ msg' = "SUMMARY"
    /\ outcome' = "ok"
    /\ pc' = "done"
    /\ UNCHANGED <<fixed, bench, tools, written>>

\* ------------------------------------------------------ run_benchmarks
\* main has not returned yet
NotReturned == -1
NoReport ==
    [statuses |-> <<>>, analyzed |-> <<>>, passed |-> 0, avg_load |-> Err("none")]

\* run_benchmarks.BenchmarkResult; returncode is kept as history, error is
\* "" or the first 200 characters of stderr
FileResult(route_count, returncode, error, table_size, load_factor, generated) ==
    [route_count |-> route_count, returncode |-> returncode, error |-> error,
     perfect_hash_table_size |-> table_size, load_factor |-> load_factor,
     dispatch_function_generated |-> generated]

\* what run_command hands back: (returncode, stderr is non-empty).  A
\* timeout or a launch failure is returncode -1 with a message in stderr.
CommandOutcomes == {<<0, FALSE>>, <<1, FALSE>>, <<1, TRUE>>, <<-1, TRUE>>}

\* benchmark_file for the file with route_count routes: a non-zero return
\* code gives a result whose error is stderr[:200], otherwise the parsed
\* metrics (hash: the table_size / load line was found with load 100%)
benchmark_file(route_count, returncode, stderr, hash, generated) ==
    IF returncode # 0
        THEN FileResult(route_count, returncode,
                        IF stderr THEN "stderr" ELSE "", 0, Val(0, 1), FALSE)
        ELSE FileResult(route_count, returncode, "",
                        IF hash THEN route_count ELSE 0,
                        IF hash THEN Val(1, 1) ELSE Val(0, 1), generated)

\* [r for r in results if not r.error]
RECURSIVE Successful(_)
Successful(rs) ==
    IF rs = <<>> THEN <<>>
    ELSE IF Head(rs).error = "" THEN <<Head(rs)>> \o Successful(Tail(rs))
    ELSE Successful(Tail(rs))

\* the Status column of print_results_table
StatusOf(r) ==
    IF r.error # "" THEN "Error"
    ELSE IF r.dispatch_function_generated THEN "OK"
    ELSE "Warn"

RECURSIVE SumLoad(_)
SumLoad(rs) ==
    IF rs = <<>> THEN Val(0, 1) ELSE Add(Head(rs).load_factor, SumLoad(Tail(rs)))

\* print_results_table, analyze_scaling and the summary of main
ReportOf(rs) ==
    [statuses |-> [k \in 1..Len(rs) |-> StatusOf(rs[k])],
     analyzed |-> IF Len(Successful(rs)) < 2 THEN <<>>
                  ELSE [k \in 1..Len(Successful(rs)) |->
                            Successful(rs)[k].route_count],
     passed |-> Len(Successful(rs)),
     avg_load |-> IF Len(Successful(rs)) > 0
                     THEN Div(SumLoad(Successful(rs)),
                              Val(Len(Successful(rs)), 1))
                     ELSE Err("none")]

\* main up to the loop: return 1 when the plugin library is missing; the
\* test files are generated when none exist (the generator's result is not
\* checked) and globbed; return 1 when there are none
RbMain ==
    /\ pc = "rb_main"
    /\ IF ~plugin_built
          THEN /\ returned' = 1
               /\ pc' = "done"
               /\ UNCHANGED <<test_files, loopK>>
          ELSE /\ test_files' \in 0..MaxFiles
               /\ loopK' = 1
               /\ IF test_files' = 0
                     THEN returned' = 1 /\ pc' = "done"
                     ELSE UNCHANGED returned /\ pc' = "benchmark_file"
    /\ UNCHANGED <<fixed, bench, msg, outcome, written, plugin_built,
                   file_results, call, ret, scales, all_results, break_even,
                   report>>

\* one pass of for test_file in test_files: results.append(benchmark_file(..))
BenchmarkFile ==
    /\ pc = "benchmark_file"
    /\ loopK <= test_files
    /\ \E c \in CommandOutcomes : \E hash \in BOOLEAN : \E generated \in BOOLEAN :
          /\ (c[1] # 0 => (hash /\ generated))
          /\ file_results' =
                Append(file_results,
                       benchmark_file(loopK * 10, c[1], c[2], hash, generated))
    /\ loopK' = loopK + 1
    /\ pc' = IF loopK = test_files THEN "rb_report" ELSE "benchmark_file"
    /\ UNCHANGED <<fixed, bench, msg, outcome, written, plugin_built,
                   test_files, returned, call, ret, scales, all_results,
                   break_even, report>>

\* print_results_table(results); analyze_scaling(results); the summary;
\* return 0
RbReport ==
    /\ pc = "rb_report"
    /\ report' = ReportOf(file_results)
    /\ msg' = IF Len(Successful(file_results)) < 2
                 THEN "Not enough successful runs to analyze scaling"
                 ELSE "Benchmark Complete"
    /\ returned' = 0
    /\ pc' = "done"
    /\ UNCHANGED <<fixed, bench, outcome, written, plugin_built, test_files,
                   file_results, call, ret, scales, all_results, break_even,
                   loopK>>

\* the exit status of the process: sys.exit(main()) for run_benchmarks; a
\* script that runs to its end exits with 0, one that dies of an uncaught
\* exception with 1
ExitStatus ==
    IF prog = "rb" THEN returned
    ELSE IF outcome = "ok" THEN 0 ELSE 1

\* -------------------------------------------------------------- Next
Next ==
    \/ BenchmarkPythonFastapi
    \/ BenchmarkConduitMcp
    \/ Popen
    \/ HealthPoll
    \/ WarmupRequest
    \/ MeasuredRequest
    \/ MeasureMemory
    \/ Cleanup
    \/ ReturnResult
    \/ MainCompare
    \/ CompareResults
    \/ CompareLoop
    \/ CompareSummary
    \/ SaveResults
    \/ MLStart
    \/ MLIteration
    \/ MLResult
    \/ MLFinally
    \/ MLSummary
    \/ BenchmarkIndexing
    \/ BenchmarkQuery
    \/ RagResult
    \/ MemoryAtScale
    \/ CoresAtScale
    \/ InstancesAtScale
    \/ CostMain
    \/ CompareScales
    \/ CalculateBreakEven
    \/ ExportResults
    \/ CostSummary
    \/ RbMain
    \/ BenchmarkFile
    \/ RbReport

Spec == Init /\ [][Next]_vars

\* ============================================================ claims
\* the result benchmark_server builds from the current run's variables
CurrentResult ==
    BenchmarkResult(IF run = 1 THEN PythonName ELSE ConduitName,
                    Len(latencies), duration, latencies, memory_mb,
                    cold_start)

\* positions after the measured loop of the current run or workload
LoopDone == {"memory", "cleanup", "print", "ml_result", "rag_result"}

\* C1: on every exit path of a framework run (return, error in the
\* workload phase, error in cleanup) the spawned server process is no
\* longer running when control leaves the run.
C1_NoProcessLeftRunning ==
    /\ prog = "mcp" =>
          \A r \in Runs : runExit[r] # "pending" => proc[r] # "running"
    /\ prog = "ml" =>
          (pc \in {"ml_summary", "done"} => proc[1] # "running")

\* C2: when no health poll succeeded within the budget the run is skipped:
\* no warm-up request and no measured request is issued.
C2_NotReadyRunSkipped ==
    (/\ prog = "mcp"
     /\ pc \in {"warmup", "measure", "memory", "cleanup", "print"}
     /\ polls = MaxPolls
     /\ pollBreak = "none") => (warm = 0 /\ i = 0)

\* C3: when every issued iteration of a run failed, the run completes
\* without raising (success count 0, throughput 0): the step that builds
\* and prints the result returns.
C3_AllFailedRunReturns ==
    [][(pc \in {"print", "ml_result"} /\ fails = NumRequests)
          => runExit'[run] = "returned"]_vars

\* C4: with fewer than 2 successful samples p50, p95 and p99 all yield an
\* error, never a number, and the code reading them handles that error
\* instead of letting it escape the run.
C4_PercentilesUndefinedAndHandled ==
    [][(prog = "mcp" /\ pc = "print" /\ Len(latencies) < 2)
          => /\ ~p50(CurrentResult).ok
             /\ ~p95(CurrentResult).ok
             /\ ~p99(CurrentResult).ok
             /\ runExit'[run] # "StatisticsError"]_vars

\* C5: a failure inside one run is contained to it: the orchestrator still
\* executes every remaining run and reaches its final comparison step.
C5_FailureContained ==
    /\ (prog = "mcp" /\ pc = "done") =>
          \A r \in Runs : runExit[r] # "pending"
    /\ (prog = "ml" /\ pc = "done") =>
          /\ \A w \in 1..Len(TestTypes) : runExit[w] # "pending"
          /\ msg = "COMPARISON SUMMARY"

\* C6: a failed iteration never aborts a workload run: every attempted
\* iteration is either a recorded sample or a counted failure, all
\* NumRequests iterations are attempted, the recorded sample count is
\* NumRequests minus the failures, and a result's request / iteration /
\* query count is the length of its latencies.
C6_AllIterationsAttempted ==
    /\ pc \in {"measure", "ml_loop", "rag_loop"} =>
          (i < NumRequests /\ Len(latencies) + fails = i)
    /\ pc \in LoopDone =>
          (i = NumRequests /\ Len(latencies) = NumRequests - fails)
    /\ \A k \in 1..Len(results) :
          CASE prog \in {"mcp", "cmp"} ->
                    results[k].requests = Len(results[k].latencies)
            [] prog = "ml" ->
                    results[k].iterations = Len(results[k].latencies)
            [] prog = "rag" ->
                    results[k].num_queries = Len(results[k].query_latencies)

\* C6 witness: a measured loop ended with a failure and a success
C6_Witness ==
    /\ pc = "memory"
    /\ fails >= 1
    /\ Len(latencies) >= 1
    /\ i = NumRequests

\* C7: stopping a server escalates to a forced kill when the process has
\* not exited after the bounded wait, so a process that ignores the
\* graceful request is still terminated.
C7_StopEscalatesToKill ==
    \A r \in Runs :
        ("TERM" \in signals[r] /\ proc[r] = "running") => "KILL" \in signals[r]

\* C8: for every result type, throughput is the count of successful
\* samples (or the sum of their unit counts) divided by the wall-clock span
\* of the run, never by the sum of the per-request durations.
C8_ThroughputOverWallClock ==
    /\ (prog = "mcp" /\ pc = "main_compare") =>
          \A k \in 1..Len(results) :
              RatEq(rps(results[k]),
                    Val(Len(results[k].latencies), results[k].duration))
    /\ (prog = "ml" /\ pc = "ml_summary") =>
          \A k \in 1..Len(results) :
              results[k].throughput.d = results[k].duration
    /\ (prog = "rag" /\ pc = "done" /\ Len(results) = 1) =>
          RatEq(queries_per_sec(results[1]), Val(Len(latencies), duration))

\* a printed line's ratio equals num / den
RatioIs(ln, num, den) == ln.ratio.ok /\ ln.ratio.n * den = ln.ratio.d * num

\* the lines of the comparison other than the memory line: throughput is
\* candidate / baseline, latency and cold start are baseline / candidate
RatiosExceptMemory(ln, b, r) ==
    /\ ln.metric = "Throughput" =>
          RatioIs(ln, r.requests * b.duration, r.duration * b.requests)
    /\ ln.metric = "Avg Latency" =>
          RatioIs(ln, Sum(b.latencies) * Len(r.latencies),
                      Len(b.latencies) * Sum(r.latencies))
    /\ ln.metric = "P95 Latency" =>
          RatioIs(ln, p95(b).n * p95(r).d, p95(b).d * p95(r).n)
    /\ ln.metric = "P99 Latency" =>
          RatioIs(ln, p99(b).n * p99(r).d, p99(b).d * p99(r).n)
    /\ ln.metric = "Cold Start" =>
          RatioIs(ln, b.cold_start_ms, r.cold_start_ms)

\* C9 as stated: the reported ratio is candidate / baseline for throughput
\* and for memory, baseline / candidate for latency and cold start.
C9_RatiosAsStated ==
    \A n \in 1..Len(printed) :
        LET ln == printed[n]
            b == results[baseline]
            r == results[ln.cand]
        IN  /\ RatiosExceptMemory(ln, b, r)
            /\ ln.metric = "Memory Usage" =>
                  RatioIs(ln, r.memory_mb, b.memory_mb)

\* C9 amended: the reported ratio is candidate / baseline for throughput
\* only; for memory, as for latency (avg, p95, p99) and cold start, it is
\* baseline / candidate.
C9_RatiosAmended ==
    \A n \in 1..Len(printed) :
        LET ln == printed[n]
            b == results[baseline]
            r == results[ln.cand]
        IN  /\ RatiosExceptMemory(ln, b, r)
            /\ ln.metric = "Memory Usage" =>
                  RatioIs(ln, b.memory_mb, r.memory_mb)

\* C9 witness: __main__ printed all six lines for a candidate whose
\* throughput, average latency and memory all differ from the baseline's
C9_Witness ==
    /\ prog = "mcp"
    /\ pc = "done"
    /\ Len(printed) = 6
    /\ results[1].memory_mb # results[2].memory_mb
    /\ ~RatEq(rps(results[1]), rps(results[2]))
    /\ ~RatEq(avg(results[1]), avg(results[2]))

\* C10: with 0 or 1 results the comparison reports insufficient results
\* and raises nothing, through __main__ or through a direct call of
\* compare_results.
C10_InsufficientResultsGraceful ==
    (prog \in {"mcp", "cmp"} /\ pc = "done" /\ Len(results) < 2) =>
        (outcome = "ok" /\ msg = "Not enough results to compare")

\* l is a non-empty sample set whose durations all equal d
AllSame(l, d) == Len(l) >= 1 /\ \A k \in 1..Len(l) : l[k] = d

\* the BenchmarkResult values at hand: the results list and, at the print
\* position of a run, the result being built
ResultsAtHand ==
    IF prog \notin {"mcp", "cmp"} THEN {}
    ELSE {results[k] : k \in 1..Len(results)}
            \cup (IF pc = "print" THEN {CurrentResult} ELSE {})

\* C18: for a sample set whose operations all succeeded with the same
\* duration d, avg, p50, p95 and p99 all equal d (d seconds, reported in
\* milliseconds).
C18_IdenticalDurationsAllEqual ==
    \A r \in ResultsAtHand : \A d \in 1..(MaxDur + 1) :
        AllSame(r.latencies, d) =>
            /\ RatEq(avg(r), Ms(Val(d, 1)))
            /\ RatEq(p50(r), Ms(Val(d, 1)))
            /\ RatEq(p95(r), Ms(Val(d, 1)))
            /\ RatEq(p99(r), Ms(Val(d, 1)))

\* C20: in every workload run the warm-up phase has completed before a
\* measured iteration is dispatched, and the measured clock and the sample
\* list start after it.
C20_WarmupPrecedesMeasured ==
    pc \in {"measure", "ml_loop", "rag_loop"} \cup LoopDone =>
        /\ warm = Warmup
        /\ Len(latencies) <= i

\* the prerequisite artifact under test is missing: the plugin library of
\* run_benchmarks, the compiled Conduit server of mcp_benchmark
PrerequisiteMissing ==
    \/ prog = "rb" /\ ~plugin_built
    \/ prog = "mcp" /\ runExit[2] = "CalledProcessError"

\* no framework / test file produced a usable (non-failed) result
NoUsableResult ==
    \/ /\ prog = "rb"
       /\ plugin_built
       /\ \A k \in 1..Len(file_results) : file_results[k].returncode # 0
    \/ prog = "mcp" /\ Len(results) = 0

\* C11: the harness exits with a non-zero status exactly when the
\* prerequisite artifact is missing or zero frameworks / test files
\* produced a usable result, and with status zero in every other case.
C11_ExitStatusNonZeroIffNothingUsable ==
    (prog \in {"rb", "mcp"} /\ pc = "done") =>
        (ExitStatus # 0 <=> (PrerequisiteMissing \/ NoUsableResult))

\* m is the ceiling of v / k
IsCeiling(m, v, k) == m * k * v.d >= v.n /\ (m - 1) * k * v.d < v.n

\* C12: for every profile, non-negative load and positive
\* cores_per_instance, instances_at_scale returns
\* max(1, ceiling(cores_at_scale(load) / cores_per_instance)), so the
\* instance count is at least 1, also at load 0.
C12_InstancesCeilingFlooredAtOne ==
    (prog = "profile" /\ pc = "done") =>
        /\ ret.instances >= 1
        /\ ret.cores = cores_at_scale(PROFILES[call.profile], call.rps)
        /\ \/ IsCeiling(ret.instances, ret.cores, call.cores_per_instance)
           \/ /\ ret.instances = 1
              /\ ret.cores.n <= call.cores_per_instance * ret.cores.d

\* C12 witness: instances_at_scale returned 1 at load 0
C12_Witness ==
    /\ prog = "profile"
    /\ pc = "done"
    /\ call.rps = 0
    /\ ret.instances = 1

\* C13: for a fixed profile the monthly cost analyze_scale computes is
\* non-decreasing in load: for loads a <= b, cost(a) <= cost(b).
C13_MonthlyCostMonotone ==
    /\ \A a \in 1..Len(all_results) : \A b \in 1..Len(all_results) :
          all_results[a].key <= all_results[b].key =>
              \A k \in 1..Len(PROFILES) :
                  Le(all_results[a].value[k].monthly_cost,
                     all_results[b].value[k].monthly_cost)
    /\ \A a \in 1..Len(break_even) : \A b \in 1..Len(break_even) :
          break_even[a].rps <= break_even[b].rps =>
              /\ Le(break_even[a].python_cost, break_even[b].python_cost)
              /\ Le(break_even[a].conduit_cost, break_even[b].conduit_cost)

\* C13 witness: compare_scales analysed three different loads
C13_Witness ==
    /\ prog = "cost"
    /\ pc = "done"
    /\ Len(all_results) = 3
    /\ all_results[1].key < all_results[2].key
    /\ all_results[2].key < all_results[3].key

\* C14: memory_at_scale(load) is the base memory plus load / 1000 times the
\* marginal memory per 1000 load units; base 8, marginal 2, load 10,000
\* gives 28.
C14_MemoryAtScaleLinear ==
    (prog = "profile" /\ pc # "memory_at_scale") =>
        /\ ret.memory.ok
        /\ ret.memory.n * 1000 =
              ret.memory.d *
                 (PROFILES[call.profile].memory_mb_base.n * 1000
                    + call.rps * PROFILES[call.profile].memory_mb_per_1k_rps.n)
        /\ (/\ PROFILES[call.profile].memory_mb_base = Val(8, 1)
            /\ PROFILES[call.profile].memory_mb_per_1k_rps = Val(2, 1)
            /\ call.rps = 10000) => ret.memory = Val(28, 1)

\* C14 witness: the Conduit profile (base 8, marginal 2) at load 10,000
C14_Witness ==
    /\ prog = "profile"
    /\ pc = "done"
    /\ PROFILES[call.profile].name = ConduitName
    /\ call.rps = 10000
    /\ ret.memory = Val(28, 1)

\* the CostAnalysis records at hand, each with its profile and load
Analyses ==
    {[k |-> k, load |-> all_results[a].key, r |-> all_results[a].value[k]] :
        a \in 1..Len(all_results), k \in 1..Len(PROFILES)}

\* C15: the monthly cost of a CostAnalysis is cores_at_scale(load) x CPU
\* hourly rate x 720 + memory_at_scale(load) / 1024 x GB hourly rate x 720,
\* from the fractional cores and not from the instance count.
C15_MonthlyCostFormula ==
    \A x \in Analyses :
        /\ x.r.cpu_cores = cores_at_scale(PROFILES[x.k], x.load)
        /\ x.r.memory_mb = memory_at_scale(PROFILES[x.k], x.load)
        /\ x.r.monthly_cost =
              Add(Mul(x.r.cpu_cores, Val(416 * 720, 10000)),
                  Mul(x.r.memory_mb, Val(52 * 720, 10000 * 1024)))

\* C15 witness: a record whose cores differ from the cores of its instances
C15_Witness ==
    /\ prog = "cost"
    /\ pc = "done"
    /\ \E x \in Analyses : x.r.cpu_cores # Val(2 * x.r.instances, 1)

\* C16: cost_per_million_requests is the monthly cost divided by
\* load x 2,592,000 times 1,000,000.
C16_CostPerMillion ==
    \A x \in Analyses :
        /\ x.r.rps = x.load
        /\ Mul(x.r.cost_per_million_requests, Val(x.load * 2592, 1000))
              = x.r.monthly_cost

\* C16 witness: the record of load 100,000 requests per second
C16_Witness ==
    /\ prog = "cost"
    /\ \E x \in Analyses : x.load = 100000 /\ x.r.cost_per_million_requests.ok

\* C17: the break-even sweep reports for each load of its sequence, in
\* order, delta = baseline monthly cost - candidate monthly cost and an
\* annualized delta of 12 times the monthly delta.
C17_BreakEvenSweep ==
    /\ \A j \in 1..Len(break_even) :
          /\ break_even[j].rps = BreakEvenScales[j]
          /\ break_even[j].python_cost =
                AnalysisOf(1, BreakEvenScales[j]).monthly_cost
          /\ break_even[j].conduit_cost =
                AnalysisOf(Len(PROFILES), BreakEvenScales[j]).monthly_cost
          /\ Add(break_even[j].savings, break_even[j].conduit_cost)
                = break_even[j].python_cost
          /\ Div(break_even[j].annual_savings, Val(12, 1))
                = break_even[j].savings
    /\ pc \in {"export_results", "cost_summary"} =>
          Len(break_even) = Len(BreakEvenScales)

\* C17 witness: the sweep is complete and its last line shows a saving
C17_Witness ==
    /\ pc = "export_results"
    /\ Len(break_even) = Len(BreakEvenScales)
    /\ break_even[Len(break_even)].savings.n > 0

\* what reading a saved mcp record back must give
ReloadedSaved(r) ==
    [name |-> r.name, requests |-> Val(r.requests, 1),
     duration |-> Val(r.duration, 1), rps |-> rps(r), latency_avg |-> avg(r),
     latency_p50 |-> p50(r), latency_p95 |-> p95(r), latency_p99 |-> p99(r),
     memory_mb |-> Val(r.memory_mb, 1),
     cold_start_ms |-> Val(r.cold_start_ms, 1)]

\* what reading an exported CostAnalysis back must give
ReloadedExported(r) ==
    [framework |-> r.framework, rps |-> Val(r.rps, 1), memory_mb |-> r.memory_mb,
     cpu_cores |-> r.cpu_cores, instances |-> Val(r.instances, 1),
     monthly_cost |-> r.monthly_cost,
     cost_per_million_requests |-> r.cost_per_million_requests]

C21_NoUnboundedWait == outcome # "hung" /\ pc # "ml_wait"

\* C22: a failed memory read gives memory 0 with an explicit warning, and
\* the comparison over results that include a zero-memory result does not
\* raise.
C22_MemoryFailureContained ==
    /\ (prog = "mcp" /\ pc \in {"cleanup", "print"} /\ memory_mb = 0)
          => memWarned
    /\ (/\ prog = "mcp"
        /\ pc = "done"
        /\ \E k \in 1..Len(results) : results[k].memory_mb = 0)
          => outcome # "ZeroDivisionError"

\* C23: the health URL is polled at most MaxPolls times, polling stops at
\* the first poll that responds successfully, and a poll is only issued
\* while no poll has been answered and the budget is not used up.
C23_PollingBounded ==
    /\ [](polls <= MaxPolls)
    /\ []((pollBreak = "ok" /\ prog = "mcp") => pc # "poll")
    /\ [][polls' > polls =>
            (pc = "poll" /\ pollBreak = "none" /\ polls < MaxPolls)]_vars

\* C23 witness: the first poll was answered and the warm-up began with the
\* budget not used up
C23_Witness ==
    /\ pc = "warmup"
    /\ pollBreak = "ok"
    /\ polls = 1
    /\ polls < MaxPolls

\* C24: an iteration whose response carries a non-success HTTP status
\* contributes no latency sample and no chunks.
C24_NonSuccessStatusExcluded == badCounted = 0

\* C25: a cold-start value is recorded for a result only when a health
\* poll returned a success response, and it is the time from launch to the
\* end of polling.
C25_ColdStartOnlyFromSuccess ==
    (prog = "mcp" /\ pc \in {"warmup", "measure", "memory", "cleanup", "print"})
        => /\ pollBreak = "ok"
           /\ cold_start = polls * 1000

\* C26: when the server of a framework run has been launched, no server
\* process of an earlier run of the comparison is still running.
C26_NoOrphanAtLaunch ==
    prog = "mcp" =>
        \A r \in Runs : \A q \in Runs :
            (q < r /\ proc[r] # "none") => proc[q] # "running"

\* number of results whose compile command returned 0
RECURSIVE Compiled(_)
Compiled(rs) ==
    IF rs = <<>> THEN <<>>
    ELSE IF Head(rs).returncode = 0 THEN <<Head(rs)>> \o Compiled(Tail(rs))
    ELSE Compiled(Tail(rs))

\* C27: a test file whose compile command returned non-zero is failed
\* everywhere: error status in the table, not in the scaling analysis, not
\* in the tests-passed total nor in the average load factor, whatever its
\* stderr.
C27_NonZeroReturnCodeIsFailure ==
    (prog = "rb" /\ pc = "done" /\ returned = 0) =>
        /\ \A k \in 1..Len(file_results) :
              file_results[k].returncode # 0 =>
                  /\ report.statuses[k] = "Error"
                  /\ \A j \in 1..Len(report.analyzed) :
                        report.analyzed[j] # file_results[k].route_count
        /\ report.passed = Len(Compiled(file_results))
        /\ report.passed > 0 =>
              report.avg_load =
                  Div(SumLoad(Compiled(file_results)), Val(report.passed, 1))

\* C28: run_full_benchmark returns a result without raising when indexing
\* failed (benchmark_indexing returned 0) or every query failed.
C28_RagDegenerateRunReturns ==
    (prog = "rag" /\ pc = "done" /\ (indexing_time = 0 \/ latencies = <<>>))
        => (outcome = "ok" /\ Len(results) = 1)

\* C29: for every non-negative load, load 0 included, analyze_scale
\* returns one CostAnalysis per profile, in profile order, each carrying
\* the load, and does not raise.
C29_AnalyzeScaleTotal ==
    (prog = "cost" /\ pc = "done") =>
        /\ outcome = "ok"
        /\ \A j \in 1..Len(scales) : \E a \in 1..Len(all_results) :
              /\ all_results[a].key = scales[j]
              /\ Len(all_results[a].value) = Len(PROFILES)
              /\ \A k \in 1..Len(PROFILES) :
                    /\ all_results[a].value[k].framework = PROFILES[k].name
                    /\ all_results[a].value[k].rps = scales[j]

====
